---- MODULE Spec2Model ----
(***************************************************************************)
(* AVocado sprite packer: the MaxRects bin packer (bin_pack.hpp), the      *)
(* multi-page packing driver (packer/packer.cpp) and the texture atlas     *)
(* binary format (packer.cpp writer, texture_atlas::load reader, io.hpp).  *)
(***************************************************************************)
EXTENDS Integers, Sequences, FiniteSets, TLC

\* std::numeric_limits<int>::max()
INT_MAX == 2147483647

\* Largest bin side explored for a stand-alone bin_pack.
MaxDim == 4
\* Largest number of rectangles committed to a stand-alone bin_pack.
MaxUsed == 3

\* Largest number of rectangles committed to a bin_pack that is asked for scores.
MaxScoreUsed == 2

\* Packing driver: most sprites, largest raw sprite side, largest padding,
\* page size, and the cap on the pages the model lets the driver open.
MaxSprites == 2
MaxRaw == 2
MaxPad == 1
PageW == 6
PageH == 3
MaxBins == 3

\* Atlas files: most pages of an atlas taken from the small atlases.
MaxPages == 2

\* Most pages of an atlas whose file is cut short.
MaxCutPages == 1
\* The batch insert: the largest side of its bin and of a request, and the most requests
MaxBatchDim == 2
MaxBatch == 2
\* task_queue: the functions submitted in all, the run calls of a thread
MaxFuncs == 2
MaxRuns == 2

\* char i in texture_atlas::load, where char is signed
CHAR_MAX == 127

\* File names (without directory and extension) the sprite files may have,
\* as std::string: the sequence of their chars ("a", "ba").
Names == {<<97>>, <<98, 97>>}

VARIABLES
    pack,       \* a stand-alone bin_pack object: bin_width, bin_height, used_rects, free_rects
    ret,        \* the rect<int> returned by the last insert(int, int) on pack
    scored,     \* a call of score(width, height, score1, score2) on pack: its arguments, outputs and returned rect
    opts,       \* packer main: bin_width, bin_height, padding (command line)
    sprites,    \* packer main: sprites[], the raw width and height of each pixmap
    infos,      \* packer main: infos[], name and padded size of each sprite
    bins,       \* packer main: std::vector<bin_pack> bins
    regions,    \* packer main: per page, the unordered_map from region name to rect
    loop_i,     \* packer main: the packing loop's counter i of placed sprites
    pc,         \* packer main: "pack" inside the packing loop, "done" after it
    log,        \* per placement, in order: the sprite, the page, the rect insert returned, the region emplaced
    stream,     \* the bytes of the file texture.atlas
    files,      \* the names of the page images on disk
    char_signed,    \* the build: whether plain char is a signed type
    textures,       \* texture_atlas::textures, each page held as the name of the image it was loaded from
    atlas_regions,  \* texture_atlas::regions, name -> texture_region (page index, x, y, width, height)
    ld,         \* texture_atlas::load: position pc, the istream's position and failbit, page_size, i, region_size, j
    rects,      \* batch insert(rects, dst) on pack: the caller's vector of requests
    dst,        \* batch insert(rects, dst) on pack: the caller's vector of packed rectangles
    given,      \* the requests as the caller handed them to the batch insert
    bat,        \* batch insert: "call" before it, "loop" inside the while loop, "returned" after it
    queue,          \* task_queue::queue, the functions held as their ids
    thread_lock,    \* task_queue::thread_lock: the thread that owns it, 0 when free
    threads,        \* per thread: where it is in submit or run, its vector runs and the place in it
    invoked,        \* per function submitted: the function whose body submitted it (0: none) and
                    \* the run calls (thread, number of the call) that invoked it
    run_count,      \* per thread: the number of run calls it has started
    moves_queue     \* TRUE: av/util/task_queue.hpp (runs is moved from queue); FALSE: av/core/util (copied)

binVars == <<pack, ret, scored>>

drvVars == <<opts, sprites, infos, bins, regions, loop_i, pc, log>>

atlVars == <<stream, files, char_signed, textures, atlas_regions, ld>>

batVars == <<rects, dst, given, bat>>

tqVars == <<queue, thread_lock, threads, invoked, run_count, moves_queue>>

vars == <<pack, ret, scored, opts, sprites, infos, bins, regions, loop_i, pc, log,
          stream, files, char_signed, textures, atlas_regions, ld,
          rects, dst, given, bat, queue, thread_lock, threads, invoked, run_count, moves_queue>>

----------------------------------------------------------------------------
(* math.hpp *)

min(a, b) == IF a < b THEN a ELSE b

max(a, b) == IF a > b THEN a ELSE b

abs(value) == IF value < 0 THEN -value ELSE value

\* rect<int>: x, y, width, height (all default 0)
Rect(x, y, w, h) == [x |-> x, y |-> y, width |-> w, height |-> h]

contained_in(r, other) ==
    /\ r.x >= other.x
    /\ r.y >= other.y
    /\ r.x + r.width <= other.x + other.width
    /\ r.y + r.height <= other.y + other.height

\* The element of a singleton set. In {e(x) : x \in {v}} the value of v is
\* computed once and e reads it as x: the local variables of the code are
\* written this way where a loop carries them from one iteration to the next.
Only(S) == CHOOSE x \in S : TRUE

\* vector helpers: v[i] = v.back(); v.pop_back()  (1-based index i)
SwapRemove(v, i) == SubSeq([v EXCEPT ![i] = v[Len(v)]], 1, Len(v) - 1)

----------------------------------------------------------------------------
(* bin_pack.hpp *)

RECURSIVE find_pos_loop(_, _, _, _, _)
find_pos_loop(free_rects, width, height, i, best) ==
    IF i > Len(free_rects) THEN best
    ELSE Only({find_pos_loop(free_rects, width, height, i + 1, next) : next \in
             {LET r == free_rects[i]
                  leftover_hor == abs(r.width - width)
                  leftover_ver == abs(r.height - height)
                  short_fit == min(leftover_hor, leftover_ver)
                  long_fit == max(leftover_hor, leftover_ver)
              IN IF /\ r.width >= width /\ r.height >= height
                    /\ (short_fit < best.score1 \/ (short_fit = best.score1 /\ long_fit < best.score2))
                 THEN [node |-> Rect(r.x, r.y, width, height), score1 |-> short_fit, score2 |-> long_fit]
                 ELSE best}})

\* find_pos with a fit test that forgets the height
find_pos_nofit(free_rects, width, height) ==
    IF Len(free_rects) > 0 /\ free_rects[1].width >= width
    THEN [node |-> Rect(free_rects[1].x, free_rects[1].y, width, height), score1 |-> 0, score2 |-> 0]
    ELSE [node |-> Rect(0, 0, 0, 0), score1 |-> INT_MAX, score2 |-> INT_MAX]

\* rect<int> find_pos(width, height, &best_short_fit, &best_long_fit) const
find_pos(free_rects, width, height) ==
    find_pos_loop(free_rects, width, height, 1,
        [node |-> Rect(0, 0, 0, 0), score1 |-> INT_MAX, score2 |-> INT_MAX])

\* score that takes the first free rectangle the request fits
score_first(free_rects, width, height) ==
    LET F == {i \in 1..Len(free_rects) :
                 free_rects[i].width >= width /\ free_rects[i].height >= height}
    IN IF F = {} THEN [node |-> Rect(0, 0, 0, 0), score1 |-> INT_MAX, score2 |-> INT_MAX]
       ELSE LET r == free_rects[CHOOSE i \in F : \A k \in F : i <= k]
            IN [node |-> Rect(r.x, r.y, width, height),
                score1 |-> min(r.width - width, r.height - height),
                score2 |-> max(r.width - width, r.height - height)]

\* score that looks for a place for the rotated rectangle
score_rotated(free_rects, width, height) ==
    LET f == find_pos(free_rects, height, width)
    IN IF f.node.height = 0
       THEN [node |-> f.node, score1 |-> INT_MAX, score2 |-> INT_MAX]
       ELSE f

\* rect<int> score(width, height, &score1, &score2) const
score(free_rects, width, height) ==
    LET f == find_pos(free_rects, width, height)
    IN IF f.node.height = 0
       THEN [node |-> f.node, score1 |-> INT_MAX, score2 |-> INT_MAX]
       ELSE f

RECURSIVE insert_new_loop(_, _, _, _)
insert_new_loop(nfr, last, new_rect, i) ==
    IF i > last THEN [nfr |-> Append(nfr, new_rect), last |-> last]
    ELSE IF contained_in(new_rect, nfr[i]) THEN [nfr |-> nfr, last |-> last]
    ELSE IF contained_in(nfr[i], new_rect)
         THEN LET n1 == [nfr EXCEPT ![i] = nfr[last]]
                  n2 == [n1 EXCEPT ![last] = n1[Len(n1)]]
              IN Only({insert_new_loop(n3, last - 1, new_rect, i) :
                           n3 \in {SubSeq(n2, 1, Len(n2) - 1)}})
         ELSE insert_new_loop(nfr, last, new_rect, i + 1)

\* void insert_new(new_rect); s carries new_free_rects and new_free_rects_last_size
insert_new(s, new_rect) ==
    IF new_rect.width = 0 \/ new_rect.height = 0 THEN s
    ELSE insert_new_loop(s.nfr, s.last, new_rect, 1)

\* split_free_node that keeps the whole free node as its own residual
split_free_node_keep(free, used, nfr) ==
    IF \/ used.x >= free.x + free.width \/ used.x + used.width <= free.x
       \/ used.y >= free.y + free.height \/ used.y + used.height <= free.y
    THEN [split |-> FALSE, nfr |-> nfr]
    ELSE [split |-> TRUE, nfr |-> Append(nfr, free)]

\* split_free_node that never finds an intersection
split_free_node_miss(free, used, nfr) == [split |-> FALSE, nfr |-> nfr]

\* bool split_free_node(free, used); nfr is new_free_rects
split_free_node(free, used, nfr) ==
    IF \/ used.x >= free.x + free.width \/ used.x + used.width <= free.x
       \/ used.y >= free.y + free.height \/ used.y + used.height <= free.y
    THEN [split |-> FALSE, nfr |-> nfr]
    ELSE LET hor == used.x < free.x + free.width /\ used.x + used.width > free.x
             ver == used.y < free.y + free.height /\ used.y + used.height > free.y
             \* New node at the top side of the used node.
             top(s) == IF hor /\ used.y > free.y /\ used.y < free.y + free.height
                       THEN insert_new(s, [free EXCEPT !.height = used.y - free.y])
                       ELSE s
             \* New node at the bottom side of the used node.
             bottom(s) == IF hor /\ used.y + used.height < free.y + free.height
                          THEN insert_new(s, [free EXCEPT !.y = used.y + used.height,
                                   !.height = free.y + free.height - (used.y + used.height)])
                          ELSE s
             \* New node at the left side of the used node.
             left(s) == IF ver /\ used.x > free.x /\ used.x < free.x + free.width
                        THEN insert_new(s, [free EXCEPT !.width = used.x - free.x])
                        ELSE s
             \* New node at the right side of the used node.
             right(s) == IF ver /\ used.x + used.width < free.x + free.width
                         THEN insert_new(s, [free EXCEPT !.x = used.x + used.width,
                                  !.width = free.x + free.width - (used.x + used.width)])
                         ELSE s
             \* new_free_rects_last_size = new_free_rects.size()
             s0 == [nfr |-> nfr, last |-> Len(nfr)]
         IN Only({[split |-> TRUE, nfr |-> s4.nfr] :
                    s4 \in {right(s3) : s3 \in {left(s2) : s2 \in {bottom(s1) : s1 \in {top(s0)}}}}})

RECURSIVE prune_inner(_, _, _)
prune_inner(nfr, f, j) ==
    IF j > Len(nfr) THEN nfr
    ELSE IF contained_in(nfr[j], f)
         THEN Only({prune_inner(rest, f, j) : rest \in {SwapRemove(nfr, j)}})
         ELSE prune_inner(nfr, f, j + 1)

RECURSIVE prune_outer(_, _, _)
prune_outer(free_rects, nfr, i) ==
    IF i > Len(free_rects) THEN nfr
    ELSE Only({prune_outer(free_rects, kept, i + 1) :
                   kept \in {prune_inner(nfr, free_rects[i], 1)}})

\* prune_free_list that merges without testing new against old
prune_free_list_merge(free_rects, nfr) == free_rects \o nfr

\* prune_free_list that keeps the new free rectangles only
prune_free_list_new(free_rects, nfr) == prune_outer(free_rects, nfr, 1)

\* void prune_free_list(): the resulting free_rects (new_free_rects is cleared)
prune_free_list(free_rects, nfr) == free_rects \o prune_outer(free_rects, nfr, 1)

\* place loop that splits the free rectangles but leaves them in the list
RECURSIVE place_loop_stay(_, _, _, _)
place_loop_stay(free_rects, nfr, node, i) ==
    IF i > Len(free_rects) THEN [free_rects |-> free_rects, nfr |-> nfr]
    ELSE Only({place_loop_stay(free_rects, s.nfr, node, i + 1) :
                   s \in {split_free_node(free_rects[i], node, nfr)}})

RECURSIVE place_loop(_, _, _, _)
place_loop(free_rects, nfr, node, i) ==
    IF i > Len(free_rects) THEN [free_rects |-> free_rects, nfr |-> nfr]
    ELSE Only({IF s.split
               THEN Only({place_loop(rest, s.nfr, node, i) :
                              rest \in {SwapRemove(free_rects, i)}})
               ELSE place_loop(free_rects, s.nfr, node, i + 1) :
                   s \in {split_free_node(free_rects[i], node, nfr)}})

\* place that commits the rectangle and leaves the free list alone
place_nosplit(b, node) == [b EXCEPT !.used_rects = Append(b.used_rects, node)]

\* void place(node): the bin after the placement
place(b, node) ==
    Only({[b EXCEPT !.free_rects = prune_free_list(p.free_rects, p.nfr),
                    !.used_rects = Append(b.used_rects, node)] :
              p \in {place_loop(b.free_rects, <<>>, node, 1)}})

\* init whose free rectangle leaves out the first column of the bin
init_shifted(width, height) ==
    [bin_width |-> width, bin_height |-> height,
     used_rects |-> <<>>,
     free_rects |-> <<Rect(1, 0, width - 1, height)>>]

\* void init(width, height), and bin_pack(width, height)
init(width, height) ==
    [bin_width |-> width, bin_height |-> height,
     used_rects |-> <<>>,
     free_rects |-> <<Rect(0, 0, width, height)>>]

\* insert that places what find_pos returned without looking at its height
insert_always(b, width, height) ==
    Only({[ret |-> new_node, bin |-> place(b, new_node)] :
              new_node \in {find_pos(b.free_rects, width, height).node}})

\* rect<int> insert(width, height): the returned rect and the bin afterwards
insert(b, width, height) ==
    Only({IF new_node.height = 0
          THEN [ret |-> new_node, bin |-> b]
          ELSE [ret |-> new_node, bin |-> place(b, new_node)] :
              new_node \in {find_pos(b.free_rects, width, height).node}})

----------------------------------------------------------------------------
(* A stand-alone bin_pack driven through its public interface. *)

NoRect == Rect(0, 0, 0, 0)

\* No call of score is in progress.
NoScore == [called |-> FALSE, width |-> 0, height |-> 0,
            out |-> [node |-> NoRect, score1 |-> 0, score2 |-> 0]]

\* The packer tool is not running.
DrvIdle ==
    /\ opts = [bin_width |-> 0, bin_height |-> 0, padding |-> 0]
    /\ sprites = <<>> /\ infos = <<>> /\ bins = <<>> /\ regions = <<>>
    /\ loop_i = 0 /\ pc = "idle" /\ log = <<>>

\* No atlas file is written or loaded.
AtlIdle ==
    /\ stream = <<>> /\ files = {} /\ char_signed = TRUE
    /\ textures = <<>> /\ atlas_regions = <<>>
    /\ ld = [pc |-> "idle", pos |-> 0, fail |-> FALSE,
             page_size |-> 0, i |-> 0, region_size |-> 0, j |-> 0]

\* No batch insert is called.
BatIdle ==
    /\ rects = <<>> /\ dst = <<>> /\ given = <<>> /\ bat = "idle"

\* No task_queue is in use.
TqIdle ==
    /\ queue = <<>> /\ thread_lock = 0 /\ threads = <<>>
    /\ invoked = <<>> /\ run_count = <<>> /\ moves_queue = FALSE

\* No stand-alone bin_pack is in use.
BinIdle ==
    /\ pack = [bin_width |-> 0, bin_height |-> 0, used_rects |-> <<>>, free_rects |-> <<>>]
    /\ ret = NoRect
    /\ scored = NoScore

BinInit ==
    /\ \E w \in 1..MaxDim, h \in 1..MaxDim : pack = init(w, h)
    /\ ret = NoRect
    /\ scored = NoScore
    /\ DrvIdle /\ AtlIdle /\ BatIdle /\ TqIdle

\* an init that sets the size and the free list and forgets used_rects.clear()
BinReinitKeep ==
    /\ ~scored.called
    /\ \E w \in 1..MaxDim, h \in 1..MaxDim :
          pack' = [init(w, h) EXCEPT !.used_rects = pack.used_rects]
    /\ UNCHANGED <<ret, scored, batVars, drvVars, atlVars, tqVars>>

\* pack.init(w, h) in any state; it returns nothing
BinReinit ==
    /\ ~scored.called
    /\ \E w \in 1..MaxDim, h \in 1..MaxDim : pack' = init(w, h)
    /\ UNCHANGED <<ret, scored, batVars, drvVars, atlVars, tqVars>>

\* pack.insert(w, h) that finds a position and places the rectangle, on a bin
\* that holds fewer than cap rectangles
InsertOk(cap) ==
    /\ ~scored.called
    /\ Len(pack.used_rects) < cap
    /\ \E w \in 1..MaxDim, h \in 1..MaxDim :
          \E r \in {insert(pack, w, h)} :
             /\ r.ret.height # 0
             /\ pack' = r.bin
             /\ ret' = r.ret
    /\ UNCHANGED <<scored, batVars, drvVars, atlVars, tqVars>>

BinInsertOk == InsertOk(MaxUsed)

\* pack.insert(w, h) that finds no position
BinInsertFail ==
    /\ ~scored.called
    /\ \E w \in 1..MaxDim, h \in 1..MaxDim :
          /\ find_pos(pack.free_rects, w, h).node.height = 0
          /\ \E r \in {insert(pack, w, h)} :
                /\ pack' = r.bin
                /\ ret' = r.ret
    /\ UNCHANGED <<scored, batVars, drvVars, atlVars, tqVars>>

\* a score that commits its candidate to the bin
BinScoreCommit ==
    /\ ~scored.called
    /\ \E w \in 1..MaxDim, h \in 1..MaxDim :
          /\ scored' = [called |-> TRUE, width |-> w, height |-> h,
                        out |-> score(pack.free_rects, w, h)]
          /\ pack' = insert(pack, w, h).bin
    /\ UNCHANGED <<ret, batVars, drvVars, atlVars, tqVars>>

\* pack.score(w, h, score1, score2): const, the bin is as before
BinScore ==
    /\ ~scored.called
    /\ \E w \in 1..MaxDim, h \in 1..MaxDim :
          scored' = [called |-> TRUE, width |-> w, height |-> h,
                     out |-> score(pack.free_rects, w, h)]
    /\ UNCHANGED <<pack, ret, batVars, drvVars, atlVars, tqVars>>

\* the caller has taken the outputs of score
BinScoreReturn ==
    /\ scored.called
    /\ scored' = NoScore
    /\ UNCHANGED <<pack, ret, batVars, drvVars, atlVars, tqVars>>

BinNext == BinReinit \/ BinInsertOk \/ BinInsertFail

SpecBin == BinInit /\ [][BinNext]_vars

\* A bin that is also asked for scores between the insertions.
ScoreInsertOk == InsertOk(MaxScoreUsed)

ScoreNext == BinReinit \/ ScoreInsertOk \/ BinInsertFail \/ BinScore \/ BinScoreReturn

SpecScore == BinInit /\ [][ScoreNext]_vars

----------------------------------------------------------------------------
(* bin_pack.hpp: void insert(std::vector<rect_size<int>> &rects, std::vector<rect<int>> &dst) *)

\* for(size_t i = 0; i < rects.size(); ++i): best carries best_score1,
\* best_score2, best_node and best_index (0 stands for -1, the indices are 1-based)
RECURSIVE batch_loop(_, _, _, _)
batch_loop(free_rects, rs, i, best) ==
    IF i > Len(rs) THEN best
    ELSE Only({batch_loop(free_rects, rs, i + 1, next) : next \in
             {LET new_node == score(free_rects, rs[i].width, rs[i].height)
              IN IF \/ new_node.score1 < best.best_score1
                    \/ (new_node.score1 = best.best_score1 /\ new_node.score2 < best.best_score2)
                 THEN [best_score1 |-> new_node.score1, best_score2 |-> new_node.score2,
                       best_node |-> new_node.node, best_index |-> i]
                 ELSE best}})

\* A scan that stops after the first request.
batch_scan_head(free_rects, rs) ==
    batch_loop(free_rects, SubSeq(rs, 1, 1), 1,
               [best_score1 |-> INT_MAX, best_score2 |-> INT_MAX,
                best_node |-> NoRect, best_index |-> 0])

\* One pass of the body of while(rects.size() > 0) up to if(best_index == -1)
batch_scan(free_rects, rs) ==
    batch_loop(free_rects, rs, 1,
               [best_score1 |-> INT_MAX, best_score2 |-> INT_MAX,
                best_node |-> NoRect, best_index |-> 0])

\* The requests a caller passes: rect_size values of positive sides
Requests ==
    UNION {[1..n -> [width : 1..MaxBatchDim, height : 1..MaxBatchDim]] : n \in 0..MaxBatch}

\* A bin after init(width, height), a vector of requests and an empty dst,
\* just before pack.insert(rects, dst)
BatInit ==
    /\ \E w \in 1..MaxBatchDim, h \in 1..MaxBatchDim : pack = init(w, h)
    /\ ret = NoRect
    /\ scored = NoScore
    /\ given \in Requests
    /\ rects = given
    /\ dst = <<>>
    /\ bat = "call"
    /\ DrvIdle /\ AtlIdle /\ TqIdle

\* dst.clear()
BatchBegin ==
    /\ bat = "call"
    /\ dst' = <<>>
    /\ bat' = "loop"
    /\ UNCHANGED <<pack, ret, scored, rects, given, drvVars, atlVars, tqVars>>

\* One iteration of the while loop that finds a request to place
BatchPlace ==
    /\ bat = "loop"
    /\ Len(rects) > 0
    /\ \E best \in {batch_scan(pack.free_rects, rects)} :
          /\ best.best_index # 0
          /\ pack' = place(pack, best.best_node)
          /\ dst' = Append(dst, best.best_node)
          /\ rects' = SwapRemove(rects, best.best_index)
    /\ UNCHANGED <<ret, scored, given, bat, drvVars, atlVars, tqVars>>

\* if(best_index == -1) return;
BatchNoFit ==
    /\ bat = "loop"
    /\ Len(rects) > 0
    /\ \E best \in {batch_scan(pack.free_rects, rects)} : best.best_index = 0
    /\ bat' = "returned"
    /\ UNCHANGED <<pack, ret, scored, rects, dst, given, drvVars, atlVars, tqVars>>

\* while(rects.size() > 0) is false
BatchEnd ==
    /\ bat = "loop"
    /\ Len(rects) = 0
    /\ bat' = "returned"
    /\ UNCHANGED <<pack, ret, scored, rects, dst, given, drvVars, atlVars, tqVars>>

\* The caller takes the requests left in rects to a bin of another size:
\* pack.init(w, h), then pack.insert(rects, dst) with the same two vectors
BatchAgain ==
    /\ bat = "returned"
    /\ Len(rects) > 0
    /\ \E w \in 1..MaxBatchDim, h \in 1..MaxBatchDim : pack' = init(w, h)
    /\ given' = rects
    /\ bat' = "call"
    /\ UNCHANGED <<ret, scored, rects, dst, drvVars, atlVars, tqVars>>

BatNext == BatchBegin \/ BatchPlace \/ BatchNoFit \/ BatchEnd \/ BatchAgain

SpecBatch == BatInit /\ [][BatNext]_vars

\* The call runs on one thread with nothing to wait for: it keeps taking steps.
FairBatch == SpecBatch /\ WF_vars(BatchBegin \/ BatchPlace \/ BatchNoFit \/ BatchEnd)

----------------------------------------------------------------------------
(* packer/packer.cpp: the multi-page packing driver *)

\* infos[i].second = {get_width() + padding * 2, get_height() + padding * 2}
padded(sprite, padding) ==
    [name |-> sprite.name,
     width |-> sprite.width + padding * 2,
     height |-> sprite.height + padding * 2]

\* std::pair<int, int> operator>
pair_gt(a, b) == a[1] > b[1] \/ (a[1] = b[1] /\ a[2] > b[2])

\* for(k ...): one sprite scored against every open bin; best_bin_local = 0 while unset
RECURSIVE bin_loop(_, _, _, _)
bin_loop(bs, info, k, acc) ==
    IF k > Len(bs) THEN acc
    ELSE Only({bin_loop(bs, info, k + 1, next) : next \in
             {LET tmp_score == <<t.score1, t.score2>>
              IN IF tmp_score[1] # INT_MAX /\ tmp_score[2] # INT_MAX
                 THEN IF pair_gt(acc.bin_score, tmp_score)
                      THEN [bin_score |-> tmp_score, best_bin_local |-> k, fits |-> TRUE]
                      ELSE [acc EXCEPT !.fits = TRUE]
                 ELSE acc :
                     t \in {score(bs[k].free_rects, info.width, info.height)}}})

\* for(j ...): every sprite scored; best_rect = best_bin = 0 while unset
RECURSIVE rect_loop(_, _, _, _)
rect_loop(bs, inf, j, acc) ==
    IF j > Len(inf) THEN acc
    ELSE Only({rect_loop(bs, inf, j + 1, next) : next \in
             {IF b.fits
              THEN IF pair_gt(acc.rect_score, b.bin_score)
                   THEN [rect_score |-> b.bin_score, best_rect |-> j,
                         best_bin |-> b.best_bin_local, all_fit |-> TRUE]
                   ELSE [acc EXCEPT !.all_fit = TRUE]
              ELSE acc :
                  b \in {bin_loop(bs, inf[j], 1,
                            [bin_score |-> <<INT_MAX, INT_MAX>>, best_bin_local |-> 0, fits |-> FALSE])}}})

\* scoring loops that never report a fit
scan_never(bs, inf) ==
    [rect_score |-> <<INT_MAX, INT_MAX>>, best_rect |-> 0, best_bin |-> 0, all_fit |-> FALSE]

\* scoring loops that settle for the first sprite that fits a bin, in the
\* first bin it fits
scan_first(bs, inf) ==
    LET P == {q \in (1..Len(inf)) \X (1..Len(bs)) :
                 score(bs[q[2]].free_rects, inf[q[1]].width, inf[q[1]].height).score1 # INT_MAX}
    IN IF P = {}
       THEN [rect_score |-> <<INT_MAX, INT_MAX>>, best_rect |-> 0, best_bin |-> 0, all_fit |-> FALSE]
       ELSE LET q == CHOOSE q \in P : \A o \in P : q[1] < o[1] \/ (q[1] = o[1] /\ q[2] <= o[2])
                t == score(bs[q[2]].free_rects, inf[q[1]].width, inf[q[1]].height)
            IN [rect_score |-> <<t.score1, t.score2>>, best_rect |-> q[1], best_bin |-> q[2],
                all_fit |-> TRUE]

\* the scoring loops of one iteration of the packing loop
scan(bs, inf) ==
    rect_loop(bs, inf, 1,
        [rect_score |-> <<INT_MAX, INT_MAX>>, best_rect |-> 0, best_bin |-> 0, all_fit |-> FALSE])

\* shrink that moves the corner outwards
shrink_out(node, padding) ==
    [x |-> node.x - padding, y |-> node.y - padding,
     width |-> node.width - padding, height |-> node.height - padding]

\* place.x += padding; place.y += padding; place.width -= padding; place.height -= padding
shrink(node, padding) ==
    [x |-> node.x + padding, y |-> node.y + padding,
     width |-> node.width - padding, height |-> node.height - padding]

\* an emplace that assigns, replacing the value of a key that is present
emplace_assign(map, name, value) ==
    [n \in DOMAIN map \cup {name} |-> IF n = name THEN value ELSE map[n]]

\* std::unordered_map::emplace: no effect when the key is present
emplace(map, name, value) ==
    IF name \in DOMAIN map THEN map
    ELSE [n \in DOMAIN map \cup {name} |-> IF n = name THEN value ELSE map[n]]

\* a placement that leaves the sprite pending
mark_placed_skip(inf, j) == inf

\* infos[best_rect].second = {int_max, int_max}
mark_placed(inf, j) == [inf EXCEPT ![j].width = INT_MAX, ![j].height = INT_MAX]

\* The files the directory walk can find: a name and the size of the image.
Files == [name : Names, width : 1..MaxRaw, height : 1..MaxRaw]

\* main up to the packing loop: options parsed, sprites loaded, infos filled
DrvInit ==
    /\ \E total \in 0..MaxSprites, p \in 0..MaxPad :
         \E fs \in [1..total -> Files] :
            /\ opts = [bin_width |-> PageW, bin_height |-> PageH, padding |-> p]
            /\ sprites = fs
            /\ infos = [j \in 1..total |-> padded(fs[j], p)]
    /\ bins = <<>> /\ regions = <<>>
    /\ loop_i = 0 /\ pc = "pack" /\ log = <<>>
    /\ BinIdle /\ AtlIdle /\ BatIdle /\ TqIdle

\* one iteration of the packing loop, all_fit branch
DrvPlace ==
    /\ pc = "pack" /\ loop_i < Len(infos)
    /\ \E s \in {scan(bins, infos)} :
          /\ s.all_fit
          /\ \E r \in {insert(bins[s.best_bin], infos[s.best_rect].width, infos[s.best_rect].height)} :
             \E where \in {shrink(r.ret, opts.padding)} :
                /\ bins' = [bins EXCEPT ![s.best_bin] = r.bin]
                /\ infos' = mark_placed(infos, s.best_rect)
                /\ regions' = [regions EXCEPT ![s.best_bin] =
                                   emplace(@, infos[s.best_rect].name, where)]
                /\ log' = Append(log, [rect |-> s.best_rect, bin |-> s.best_bin,
                                       node |-> r.ret, place |-> where])
    /\ loop_i' = loop_i + 1
    /\ UNCHANGED <<opts, sprites, pc, binVars, batVars, atlVars, tqVars>>

\* An else branch that opens two pages at once.
DrvOpenTwoPages ==
    /\ pc = "pack" /\ loop_i < Len(infos)
    /\ \E s \in {scan(bins, infos)} : ~s.all_fit
    /\ Len(bins) + 1 < MaxBins
    /\ bins' = bins \o <<init(opts.bin_width, opts.bin_height),
                          init(opts.bin_width, opts.bin_height)>>
    /\ regions' = regions \o <<(<<>>), (<<>>)>>
    /\ UNCHANGED <<opts, sprites, infos, loop_i, pc, log, binVars, batVars, atlVars, tqVars>>

\* one iteration of the packing loop, else branch: a new page
DrvOpenPage ==
    /\ pc = "pack" /\ loop_i < Len(infos)
    /\ \E s \in {scan(bins, infos)} : ~s.all_fit
    /\ Len(bins) < MaxBins
    /\ bins' = Append(bins, init(opts.bin_width, opts.bin_height))
    /\ regions' = Append(regions, <<>>)
    /\ UNCHANGED <<opts, sprites, infos, loop_i, pc, log, binVars, batVars, atlVars, tqVars>>

\* the packing loop ends
DrvDone ==
    /\ pc = "pack" /\ ~(loop_i < Len(infos))
    /\ pc' = "done"
    /\ UNCHANGED <<opts, sprites, infos, bins, regions, loop_i, log, binVars, batVars, atlVars, tqVars>>

DrvNext == DrvPlace \/ DrvOpenPage \/ DrvDone

SpecDriver == DrvInit /\ [][DrvNext]_vars

\* The packing loop is a plain sequential loop: it keeps running while it can.
FairDriver == DrvInit /\ [][DrvNext]_vars /\ WF_vars(DrvNext)

\* main up to the packing loop when --padding is negative: padded sizes may be
\* 0 or negative
DegInit ==
    /\ \E total \in 0..MaxSprites, p \in -MaxPad..-1 :
         \E fs \in [1..total -> Files] :
            /\ opts = [bin_width |-> PageW, bin_height |-> PageH, padding |-> p]
            /\ sprites = fs
            /\ infos = [j \in 1..total |-> padded(fs[j], p)]
    /\ bins = <<>> /\ regions = <<>>
    /\ loop_i = 0 /\ pc = "pack" /\ log = <<>>
    /\ BinIdle /\ AtlIdle /\ BatIdle /\ TqIdle

SpecDegenerate == DegInit /\ [][DrvNext]_vars

----------------------------------------------------------------------------
(* io.hpp: raw fixed-width values on a byte stream (host byte order, taken
   little-endian here; the writer and the reader run on the same host) *)

\* writes::write<T>(value), sizeof(T) = n: the n low bytes of value
write_int(value, n) == [k \in 1..n |-> (value \div (256 ^ (k - 1))) % 256]

\* writes::write<std::string>: unsigned int length, then the chars
write_string(value) == write_int(Len(value), 4) \o value

RECURSIVE from_bytes(_)
from_bytes(bytes) ==
    IF bytes = <<>> THEN 0 ELSE bytes[1] + 256 * from_bytes(Tail(bytes))

\* reads::read<T>(), sizeof(T) = n, on stream in at state st (pos, fail):
\* T value{}; in.read(&value, n). A failed stream reads nothing; a short
\* stream gives the bytes it has and fails.
read_int(in, st, n) ==
    IF st.fail THEN [v |-> 0, pos |-> st.pos, fail |-> TRUE]
    ELSE IF st.pos + n <= Len(in)
         THEN [v |-> from_bytes(SubSeq(in, st.pos + 1, st.pos + n)), pos |-> st.pos + n, fail |-> FALSE]
         ELSE [v |-> from_bytes(SubSeq(in, st.pos + 1, Len(in))), pos |-> Len(in), fail |-> TRUE]

\* value = str for a char array: the chars before the first '\0'
RECURSIVE c_str(_)
c_str(chars) ==
    IF chars = <<>> \/ chars[1] = 0 THEN <<>> ELSE <<chars[1]>> \o c_str(Tail(chars))

\* reads::read<std::string> up to str[len] = 0: len, then in.read(str, len) into
\* char str[len + 1]. chars are the chars in.read stored, uninit the number of
\* chars of str[0..len-1] it left unwritten (a failed stream stores nothing, a
\* short stream stores the chars it has and fails).
read_string(in, st) ==
    LET l == read_int(in, st, 4)
    IN IF l.fail THEN [chars |-> <<>>, uninit |-> l.v, pos |-> l.pos, fail |-> TRUE]
       ELSE IF l.pos + l.v <= Len(in)
            THEN [chars |-> SubSeq(in, l.pos + 1, l.pos + l.v), uninit |-> 0,
                  pos |-> l.pos + l.v, fail |-> FALSE]
            ELSE [chars |-> SubSeq(in, l.pos + 1, Len(in)), uninit |-> l.pos + l.v - Len(in),
                  pos |-> Len(in), fail |-> TRUE]

\* What the unwritten chars of str may hold up to their first '\0': nothing
\* (the first is '\0') or some other char.
Garbage == {<<>>, <<63>>}

\* value = str: the strings the read may give. The unwritten chars of str are
\* indeterminate.
str_values(r) ==
    IF r.uninit = 0 THEN {c_str(r.chars)}
    ELSE {c_str(r.chars \o g) : g \in Garbage}

----------------------------------------------------------------------------
(* packer/packer.cpp: the atlas writer *)

\* std::to_string(i)
RECURSIVE to_string(_)
to_string(n) ==
    IF n < 10 THEN <<48 + n>> ELSE to_string(n \div 10) \o <<48 + (n % 10)>>

\* std::string page_name("texture"); page_name.append(std::to_string(i)).append(".png")
page_name(n) ==
    <<116, 101, 120, 116, 117, 114, 101>> \o to_string(n) \o <<46, 112, 110, 103>>

\* one region record: name, then x, y, width, height as unsigned short
write_region(name, region) ==
    write_string(name) \o write_int(region.x, 2) \o write_int(region.y, 2)
        \o write_int(region.width, 2) \o write_int(region.height, 2)

\* for(const auto &[name, region] : map), the map iterated in the order ord
RECURSIVE write_regions(_, _, _)
write_regions(map, ord, k) ==
    IF k > Len(ord) THEN <<>>
    ELSE (IF ord[k] \in DOMAIN map THEN write_region(ord[k], map[ord[k]]) ELSE <<>>)
             \o write_regions(map, ord, k + 1)

\* one pass of for(size_t i = 0; i < pages.size(); i++), i = n - 1:
\* page name, region count as short, regions
write_page(map, ord, n) ==
    write_string(page_name(n - 1))
        \o write_int(Cardinality(DOMAIN map), 2)
        \o write_regions(map, ord, 1)

\* chunks[lo] \o ... \o chunks[hi]
RECURSIVE concat(_, _, _)
concat(chunks, lo, hi) ==
    IF lo > hi THEN <<>>
    ELSE IF lo = hi THEN chunks[lo]
    ELSE concat(chunks, lo, (lo + hi) \div 2) \o concat(chunks, (lo + hi) \div 2 + 1, hi)

\* for(size_t i = 0; i < pages.size(); i++)
write_pages(regs, ord) ==
    concat([n \in 1..Len(regs) |-> write_page(regs[n], ord, n)], 1, Len(regs))

\* the bytes written to texture.atlas: version 1, page count as unsigned char, pages
write_atlas(regs, ord) ==
    write_int(1, 1) \o write_int(Len(regs), 1) \o write_pages(regs, ord)

----------------------------------------------------------------------------
(* texture_atlas.hpp: texture_atlas::load *)

\* SHRT_MAX, for short j
SHRT_MAX == 32767

\* a version test that accepts every later version
version_ok_later(version) == version >= 1

\* if(version != 1) throw
version_ok(version) == version = 1

\* a clear that leaves the container as it is
clear_keep(container) == container

\* regions.clear(); textures.clear()
clear(container) == <<>>

\* i++ for char i
inc_char(c, signed) ==
    IF signed THEN (IF c = CHAR_MAX THEN -CHAR_MAX - 1 ELSE c + 1)
    ELSE (c + 1) % (2 * CHAR_MAX + 2)

\* j++ for short j
inc_short(h) == IF h = SHRT_MAX THEN -SHRT_MAX - 1 ELSE h + 1

----------------------------------------------------------------------------
(* An atlas written by the packer and loaded by texture_atlas::load *)

\* The region rectangles an atlas may hold.
RegionRects == {Rect(0, 0, 1, 1), Rect(256, 65535, 255, 2)}

\* The region maps a page may have.
PageMaps == UNION {[D -> RegionRects] : D \in SUBSET Names}

\* An atlas of n pages: region "a" at r on the first page, the others empty.
ManyPages(n, r) == [k \in 1..n |-> IF k = 1 THEN [m \in {<<97>>} |-> r] ELSE <<>>]

\* The atlases written: every small one, one of CHAR_MAX + 1 pages, and one of
\* 256 pages (one more than an unsigned char counts) with a region at x = 65536
\* (one more than an unsigned short holds).
Atlases ==
    UNION {[1..n -> PageMaps] : n \in 0..MaxPages}
        \cup {ManyPages(CHAR_MAX + 1, Rect(0, 0, 1, 1)),
              ManyPages(2 * CHAR_MAX + 2, Rect(2 * SHRT_MAX + 2, 0, 1, 1))}

\* The orders in which an unordered_map may iterate its names.
NameOrders ==
    {o \in [1..Cardinality(Names) -> Names] : \A a, b \in DOMAIN o : a # b => o[a] # o[b]}

\* Version bytes of atlas files of other format versions.
OtherVersions == {0, 2, 255}

\* The packer has packed; a texture_atlas object exists, empty or holding
\* an earlier atlas.
AtlInit ==
    /\ regions \in Atlases
    /\ pc = "write"
    /\ opts = [bin_width |-> 0, bin_height |-> 0, padding |-> 0]
    /\ sprites = <<>> /\ infos = <<>> /\ bins = <<>> /\ loop_i = 0 /\ log = <<>>
    /\ stream = <<>> /\ files = {}
    /\ char_signed \in BOOLEAN
    /\ \/ textures = <<>> /\ atlas_regions = <<>>
       \/ /\ textures = <<page_name(0)>>
          /\ atlas_regions = [n \in {<<98, 97>>} |->
                                 [texture |-> 1, x |-> 2, y |-> 2, width |-> 2, height |-> 2]]
    /\ ld = [pc |-> "idle", pos |-> 0, fail |-> FALSE,
             page_size |-> 0, i |-> 0, region_size |-> 0, j |-> 0]
    /\ BinIdle /\ BatIdle /\ TqIdle

\* main after the packing loop: texture.atlas and the page images are written
WriteAtlas ==
    /\ pc = "write"
    /\ \E ord \in NameOrders : stream' = write_atlas(regions, ord)
    /\ files' = {page_name(k - 1) : k \in 1..Len(regions)}
    /\ pc' = "written"
    /\ UNCHANGED <<opts, sprites, infos, bins, regions, loop_i, log, binVars, batVars, tqVars,
                   char_signed, textures, atlas_regions, ld>>

\* the file is one of another format version: its first byte differs
Retag ==
    /\ pc = "written" /\ ld.pc = "idle"
    /\ \E v \in OtherVersions : stream' = [stream EXCEPT ![1] = v]
    /\ pc' = "foreign"
    /\ UNCHANGED <<opts, sprites, infos, bins, regions, loop_i, log, binVars, batVars, tqVars,
                   files, char_signed, textures, atlas_regions, ld>>

\* the file is cut short: it keeps its first n bytes, the version and the page
\* amount among them
Truncate ==
    /\ pc = "written" /\ ld.pc = "idle"
    /\ \E n \in 2..Len(stream) - 1 : stream' = SubSeq(stream, 1, n)
    /\ pc' = "truncated"
    /\ UNCHANGED <<opts, sprites, infos, bins, regions, loop_i, log, binVars, batVars, tqVars,
                   files, char_signed, textures, atlas_regions, ld>>

\* load up to the page loop: clear, version, page amount
LoadBegin ==
    /\ pc \in {"written", "foreign", "truncated"} /\ ld.pc = "idle"
    /\ textures' = clear(textures)
    /\ atlas_regions' = clear(atlas_regions)
    /\ \E version \in {read_int(stream, [pos |-> 0, fail |-> FALSE], 1)} :
          IF ~version_ok(version.v)
          THEN ld' = [ld EXCEPT !.pc = "error", !.pos = version.pos, !.fail = version.fail]
          ELSE \E page_size \in {read_int(stream, version, 1)} :
                  ld' = [pc |-> "page", pos |-> page_size.pos, fail |-> page_size.fail,
                         page_size |-> page_size.v, i |-> 0, region_size |-> 0, j |-> 0]
    /\ UNCHANGED <<drvVars, binVars, batVars, tqVars, stream, files, char_signed>>

\* one pass of the page loop up to the region loop: the page image is loaded
\* (the pixmap constructor throws when there is no such image), region amount
LoadPage ==
    /\ ld.pc = "page" /\ ld.i < ld.page_size
    /\ \E name \in {read_string(stream, ld)} :
       \E page_name_v \in str_values(name) :
          IF page_name_v \notin files
          THEN /\ ld' = [ld EXCEPT !.pc = "error", !.pos = name.pos, !.fail = name.fail]
               /\ UNCHANGED textures
          ELSE /\ textures' = Append(textures, page_name_v)
               /\ \E region_size \in {read_int(stream, name, 2)} :
                     ld' = [ld EXCEPT !.pc = "region", !.pos = region_size.pos,
                                      !.fail = region_size.fail,
                                      !.region_size = region_size.v, !.j = 0]
    /\ UNCHANGED <<drvVars, binVars, batVars, tqVars, stream, files, char_signed, atlas_regions>>

\* one pass of the region loop
LoadRegion ==
    /\ ld.pc = "region" /\ ld.j < ld.region_size
    /\ \E name \in {read_string(stream, ld)} :
       \E name_v \in str_values(name) :
       \E x \in {read_int(stream, name, 2)} :
       \E y \in {read_int(stream, x, 2)} :
       \E w \in {read_int(stream, y, 2)} :
       \E h \in {read_int(stream, w, 2)} :
          /\ atlas_regions' = emplace(atlas_regions, name_v,
                 [texture |-> Len(textures), x |-> x.v, y |-> y.v, width |-> w.v, height |-> h.v])
          /\ ld' = [ld EXCEPT !.pos = h.pos, !.fail = h.fail, !.j = inc_short(ld.j)]
    /\ UNCHANGED <<drvVars, binVars, batVars, tqVars, stream, files, char_signed, textures>>

\* the region loop ends: i++
LoadPageEnd ==
    /\ ld.pc = "region" /\ ~(ld.j < ld.region_size)
    /\ ld' = [ld EXCEPT !.pc = "page", !.i = inc_char(ld.i, char_signed)]
    /\ UNCHANGED <<drvVars, binVars, batVars, tqVars, stream, files, char_signed, textures, atlas_regions>>

\* the page loop ends: load returns
LoadEnd ==
    /\ ld.pc = "page" /\ ~(ld.i < ld.page_size)
    /\ ld' = [ld EXCEPT !.pc = "done"]
    /\ UNCHANGED <<drvVars, binVars, batVars, tqVars, stream, files, char_signed, textures, atlas_regions>>

AtlNext == WriteAtlas \/ Retag \/ LoadBegin \/ LoadPage \/ LoadRegion \/ LoadPageEnd \/ LoadEnd

SpecAtlas == AtlInit /\ [][AtlNext]_vars

\* Atlases of at most MaxCutPages pages, written, cut short and loaded.
CutInit == AtlInit /\ Len(regions) <= MaxCutPages

CutNext == WriteAtlas \/ Truncate \/ LoadBegin \/ LoadPage \/ LoadRegion \/ LoadPageEnd \/ LoadEnd

SpecCut == CutInit /\ [][CutNext]_vars

----------------------------------------------------------------------------
(* task_queue.hpp: submit and run called from several threads; app::post and
   app::run_posts are these two calls on app::posts *)

\* The threads that call submit and run: the thread of the main loop and a worker
Threads == {1, 2}

\* A mutex whose lock() returns at once.
can_lock_always(m, t) == TRUE

\* std::recursive_mutex: lock() returns when no other thread owns the mutex
can_lock(m, t) == m.owner \in {0, t}

\* thread_lock.lock() by thread t, once it returns
lock(m, t) == [owner |-> t, count |-> (IF m.owner = t THEN m.count ELSE 0) + 1]

\* thread_lock.unlock()
unlock(m, t) == IF m.count <= 1 THEN [owner |-> 0, count |-> 0]
                ELSE [m EXCEPT !.count = m.count - 1]

\* A thread outside submit and run
ThreadIdle == [pc |-> "idle", function |-> 0, runs |-> <<>>, idx |-> 0, inside |-> 0]

\* A task_queue after construction, shared by the threads
TqInit ==
    /\ queue = <<>>
    /\ thread_lock = [owner |-> 0, count |-> 0]
    /\ threads = [t \in Threads |-> ThreadIdle]
    /\ invoked = <<>>
    /\ run_count = [t \in Threads |-> 0]
    /\ moves_queue \in BOOLEAN
    /\ BinIdle /\ DrvIdle /\ AtlIdle /\ BatIdle

\* a thread calls submit(function) (app::post)
SubmitCall(t) ==
    /\ threads[t].pc = "idle"
    /\ Len(invoked) < MaxFuncs
    /\ invoked' = Append(invoked, [from |-> 0, by |-> <<>>])
    /\ threads' = [threads EXCEPT ![t].pc = "submit_lock", ![t].function = Len(invoked) + 1]
    /\ UNCHANGED <<queue, thread_lock, run_count, moves_queue, binVars, batVars, drvVars, atlVars>>

\* submit: thread_lock.lock()
SubmitLock(t) ==
    /\ threads[t].pc = "submit_lock"
    /\ can_lock(thread_lock, t)
    /\ thread_lock' = lock(thread_lock, t)
    /\ threads' = [threads EXCEPT ![t].pc = "submit_push"]
    /\ UNCHANGED <<queue, invoked, run_count, moves_queue, binVars, batVars, drvVars, atlVars>>

\* submit: queue.push_back(function)
SubmitPush(t) ==
    /\ threads[t].pc = "submit_push"
    /\ queue' = Append(queue, threads[t].function)
    /\ threads' = [threads EXCEPT ![t].pc = "submit_unlock"]
    /\ UNCHANGED <<thread_lock, invoked, run_count, moves_queue, binVars, batVars, drvVars, atlVars>>

\* submit: thread_lock.unlock() and return, to the caller or into the body of
\* the function that called submit, which then ends
SubmitUnlock(t) ==
    /\ threads[t].pc = "submit_unlock"
    /\ thread_lock' = unlock(thread_lock, t)
    /\ threads' = [threads EXCEPT ![t].pc = IF threads[t].inside # 0 THEN "run_loop" ELSE "idle",
                                  ![t].function = 0, ![t].inside = 0]
    /\ UNCHANGED <<queue, invoked, run_count, moves_queue, binVars, batVars, drvVars, atlVars>>

\* a thread calls run(args...) (app::run_posts)
RunCall(t) ==
    /\ threads[t].pc = "idle"
    /\ run_count[t] < MaxRuns
    /\ run_count' = [run_count EXCEPT ![t] = @ + 1]
    /\ threads' = [threads EXCEPT ![t].pc = "run_lock"]
    /\ UNCHANGED <<queue, thread_lock, invoked, moves_queue, binVars, batVars, drvVars, atlVars>>

\* run: thread_lock.lock()
RunLock(t) ==
    /\ threads[t].pc = "run_lock"
    /\ can_lock(thread_lock, t)
    /\ thread_lock' = lock(thread_lock, t)
    /\ threads' = [threads EXCEPT ![t].pc = "run_check"]
    /\ UNCHANGED <<queue, invoked, run_count, moves_queue, binVars, batVars, drvVars, atlVars>>

\* run: if(queue.empty()) { thread_lock.unlock(); return; }
RunEmpty(t) ==
    /\ threads[t].pc = "run_check"
    /\ queue = <<>>
    /\ thread_lock' = unlock(thread_lock, t)
    /\ threads' = [threads EXCEPT ![t].pc = "idle"]
    /\ UNCHANGED <<queue, invoked, run_count, moves_queue, binVars, batVars, drvVars, atlVars>>

\* run: std::vector<T_func> runs = std::move(queue), which leaves queue empty;
\* runs = queue in av/core/util/task_queue.hpp, which leaves queue as it is
RunTake(t) ==
    /\ threads[t].pc = "run_check"
    /\ queue # <<>>
    /\ threads' = [threads EXCEPT ![t].pc = "run_clear", ![t].runs = queue, ![t].idx = 0]
    /\ queue' = IF moves_queue THEN <<>> ELSE queue
    /\ UNCHANGED <<thread_lock, invoked, run_count, moves_queue, binVars, batVars, drvVars, atlVars>>

\* run: queue.clear()
RunClear(t) ==
    /\ threads[t].pc = "run_clear"
    /\ queue' = <<>>
    /\ threads' = [threads EXCEPT ![t].pc = "run_unlock"]
    /\ UNCHANGED <<thread_lock, invoked, run_count, moves_queue, binVars, batVars, drvVars, atlVars>>

\* run: thread_lock.unlock()
RunUnlock(t) ==
    /\ threads[t].pc = "run_unlock"
    /\ thread_lock' = unlock(thread_lock, t)
    /\ threads' = [threads EXCEPT ![t].pc = "run_loop"]
    /\ UNCHANGED <<queue, invoked, run_count, moves_queue, binVars, batVars, drvVars, atlVars>>

\* run: for(const T_func &func : runs) func(args...), one function whose
\* body does not touch the task_queue
RunInvoke(t) ==
    /\ threads[t].pc = "run_loop"
    /\ threads[t].idx < Len(threads[t].runs)
    /\ \E func \in {threads[t].runs[threads[t].idx + 1]} :
          invoked' = [invoked EXCEPT ![func].by = Append(@, <<t, run_count[t]>>)]
    /\ threads' = [threads EXCEPT ![t].idx = @ + 1]
    /\ UNCHANGED <<queue, thread_lock, run_count, moves_queue, binVars, batVars, drvVars, atlVars>>

\* the same for a function whose body calls submit (app.post from a posted function)
RunInvokeSubmit(t) ==
    /\ threads[t].pc = "run_loop"
    /\ threads[t].idx < Len(threads[t].runs)
    /\ Len(invoked) < MaxFuncs
    /\ \E func \in {threads[t].runs[threads[t].idx + 1]} :
          /\ invoked' = Append([invoked EXCEPT ![func].by = Append(@, <<t, run_count[t]>>)],
                               [from |-> func, by |-> <<>>])
          /\ threads' = [threads EXCEPT ![t].idx = @ + 1, ![t].pc = "submit_lock",
                                        ![t].function = Len(invoked) + 1, ![t].inside = func]
    /\ UNCHANGED <<queue, thread_lock, run_count, moves_queue, binVars, batVars, drvVars, atlVars>>

\* run: the loop over runs ends, runs is destroyed, run returns
RunReturn(t) ==
    /\ threads[t].pc = "run_loop"
    /\ ~(threads[t].idx < Len(threads[t].runs))
    /\ threads' = [threads EXCEPT ![t] = ThreadIdle]
    /\ UNCHANGED <<queue, thread_lock, invoked, run_count, moves_queue, binVars, batVars, drvVars, atlVars>>

\* The steps of a call that is under way.
TqStep(t) ==
    \/ SubmitLock(t) \/ SubmitPush(t) \/ SubmitUnlock(t)
    \/ RunLock(t) \/ RunEmpty(t) \/ RunTake(t) \/ RunClear(t) \/ RunUnlock(t)
    \/ RunInvoke(t) \/ RunInvokeSubmit(t) \/ RunReturn(t)

TqNext == \E t \in Threads : SubmitCall(t) \/ RunCall(t) \/ TqStep(t)

SpecQueue == TqInit /\ [][TqNext]_vars

\* Every thread that is inside a call keeps running; whether and when a thread
\* makes a call is up to the program.
FairQueue == SpecQueue /\ \A t \in Threads : WF_vars(TqStep(t))

----------------------------------------------------------------------------
(* Properties of a stand-alone bin_pack *)

\* Two rectangles share a region of positive area.
Intersects(a, b) ==
    /\ a.x < b.x + b.width /\ b.x < a.x + a.width
    /\ a.y < b.y + b.height /\ b.y < a.y + a.height

\* The bin that results from placing rs[1..n] in order into b.
RECURSIVE Replay(_, _, _)
Replay(b, rs, n) == IF n = 0 THEN b ELSE place(Replay(b, rs, n - 1), rs[n])

\* The free rectangles of the bin just before its last placement that the last
\* placed rectangle intersects.
SplitByLast(b) ==
    LET n == Len(b.used_rects)
        prev == Replay(init(b.bin_width, b.bin_height), b.used_rects, n - 1)
    IN {i \in 1..Len(prev.free_rects) : Intersects(prev.free_rects[i], b.used_rects[n])}

\* C1: after any sequence of init and successful insert(w, h) calls with w, h > 0
\* on one bin, no two rectangles of its used list intersect with positive area.
C1_NoOverlap ==
    \A i, j \in 1..Len(pack.used_rects) :
        i # j => ~Intersects(pack.used_rects[i], pack.used_rects[j])

C1_Witness ==
    /\ Len(pack.used_rects) >= 3
    /\ Len(pack.free_rects) >= 2

\* C2: every used rectangle lies inside the page: 0 <= x, 0 <= y,
\* x + width <= bin_width and y + height <= bin_height.
C2_WithinBounds ==
    \A i \in 1..Len(pack.used_rects) :
        LET r == pack.used_rects[i]
        IN /\ 0 <= r.x /\ 0 <= r.y
           /\ r.x + r.width <= pack.bin_width
           /\ r.y + r.height <= pack.bin_height

C2_Witness ==
    /\ Len(pack.used_rects) >= 2
    /\ \E i \in 1..Len(pack.used_rects) :
          /\ pack.used_rects[i].x > 0 /\ pack.used_rects[i].y > 0
          /\ pack.used_rects[i].x + pack.used_rects[i].width = pack.bin_width

\* C3: after every place(), no entry of the free list is contained in another
\* entry of the free list, also when one placement split several free rectangles.
C3_FreeListMinimal ==
    \A i, j \in 1..Len(pack.free_rects) :
        i # j => ~contained_in(pack.free_rects[i], pack.free_rects[j])

C3_Witness ==
    /\ Len(pack.used_rects) >= 2
    /\ Cardinality(SplitByLast(pack)) >= 2
    /\ Len(pack.free_rects) >= 2

\* The entries of a list of rectangles.
RectSet(rs) == {rs[i] : i \in 1..Len(rs)}

\* A placement of U removes the free rectangles U intersects, keeps the others
\* as they are, and adds only residuals of the removed ones: of positive size,
\* inside a removed free rectangle and clear of U. The residuals split_free_node
\* makes of one free rectangle are of that kind too.
C19_Step ==
    Len(pack'.used_rects) = Len(pack.used_rects) + 1 =>
        LET U == pack'.used_rects[Len(pack'.used_rects)]
            old == RectSet(pack.free_rects)
            new == RectSet(pack'.free_rects)
            Residual(R, F) ==
                /\ R.width > 0 /\ R.height > 0
                /\ contained_in(R, F)
                /\ ~Intersects(R, U)
        IN /\ U.width > 0 /\ U.height > 0
           /\ \A F \in old : Intersects(F, U) => F \notin new
           /\ \A F \in old : ~Intersects(F, U) => F \in new
           /\ Len(pack'.free_rects) = Cardinality(new)
           /\ \A R \in new \ old : \E F \in old : Intersects(F, U) /\ Residual(R, F)
           /\ \A F \in old :
                 LET s == split_free_node(F, U, <<>>)
                 IN /\ s.split <=> Intersects(F, U)
                    /\ Len(s.nfr) <= 4
                    /\ \A R \in RectSet(s.nfr) : Residual(R, F)

\* C19: place(U) with U of positive width and height removes every free
\* rectangle that intersects U with positive area, produces for it only
\* residuals of positive width and height that lie inside it and do not
\* intersect U, and leaves every other free rectangle in the free list unchanged.
C19_PlaceSplits == [][C19_Step]_vars

C19_Witness ==
    /\ Len(pack.used_rects) >= 2
    /\ LET n == Len(pack.used_rects)
           prev == Replay(init(pack.bin_width, pack.bin_height), pack.used_rects, n - 1)
       IN /\ Cardinality(SplitByLast(pack)) >= 1
          /\ \E F \in RectSet(prev.free_rects) :
                ~Intersects(F, pack.used_rects[n]) /\ F \in RectSet(pack.free_rects)
          /\ Len(pack.free_rects) > Len(prev.free_rects)

\* C20: in every state of a page reached by successful inserts of positive
\* sizes, every free rectangle has positive width and height, lies within the
\* page bounds and has no positive-area intersection with any used rectangle.
C20_FreeIsFree ==
    \A i \in 1..Len(pack.free_rects) :
        LET f == pack.free_rects[i]
        IN /\ f.width > 0 /\ f.height > 0
           /\ 0 <= f.x /\ 0 <= f.y
           /\ f.x + f.width <= pack.bin_width
           /\ f.y + f.height <= pack.bin_height
           /\ \A j \in 1..Len(pack.used_rects) : ~Intersects(f, pack.used_rects[j])

C20_Witness ==
    /\ Len(pack.used_rects) >= 3
    /\ Len(pack.free_rects) >= 3
    /\ \E i \in 1..Len(pack.free_rects) :
          pack.free_rects[i].x > 0 /\ pack.free_rects[i].y > 0

\* The unit cell with corner (cx, cy) lies inside rectangle r.
CellIn(cx, cy, r) ==
    /\ r.x <= cx /\ cx < r.x + r.width
    /\ r.y <= cy /\ cy < r.y + r.height

\* The free rectangles that hold the cell.
FreeAt(cx, cy) == {i \in 1..Len(pack.free_rects) : CellIn(cx, cy, pack.free_rects[i])}

\* C21: in every reachable state of a page the free list covers all free area:
\* every unit cell of the page that is inside no used rectangle is inside at
\* least one free rectangle.
C21_FreeListCovers ==
    \A cx \in 0..pack.bin_width - 1 : \A cy \in 0..pack.bin_height - 1 :
        (\A j \in 1..Len(pack.used_rects) : ~CellIn(cx, cy, pack.used_rects[j]))
            => FreeAt(cx, cy) # {}

C21_Witness ==
    /\ Len(pack.used_rects) >= 2
    /\ \E cx \in 0..pack.bin_width - 1 : \E cy \in 0..pack.bin_height - 1 :
          Cardinality(FreeAt(cx, cy)) >= 2
    /\ \E cx \in 0..pack.bin_width - 1 : \E cy \in 0..pack.bin_height - 1 :
          Cardinality(FreeAt(cx, cy)) = 1

\* A call of score, and its return, leave the bin as it is.
C22_Step ==
    scored' # scored => pack' = pack

\* C22: score(width, height) leaves the page's free list, used list and bin
\* size unchanged for every input and every page state, so score calls between
\* two placements do not change what later score or insert calls return.
C22_ScoreReadsOnly == [][C22_Step]_vars

C22_Witness ==
    /\ scored.called
    /\ Len(pack.used_rects) >= 1
    /\ scored.out.score1 # INT_MAX
    /\ scored.out.node.x + scored.out.node.y > 0

\* The free rectangles of the bin that a width x height request fits.
Fits(b, width, height) ==
    {i \in 1..Len(b.free_rects) :
        b.free_rects[i].width >= width /\ b.free_rects[i].height >= height}

\* The short and the long leftover of a width x height request in free rectangle r.
FitScore(r, width, height) ==
    <<min(r.width - width, r.height - height), max(r.width - width, r.height - height)>>

\* C14: score(width, height) returns the lexicographic minimum of (short
\* leftover, long leftover) over the free rectangles the request fits, and a
\* candidate of size (width, height), not rotated, at the corner of a free
\* rectangle that attains the minimum; when the request fits no free rectangle
\* both scores are INT_MAX and the candidate has height 0.
C14_ScoreIsBestShortSideFit ==
    scored.called =>
        LET F == Fits(pack, scored.width, scored.height)
            got == <<scored.out.score1, scored.out.score2>>
        IN IF F = {}
           THEN got = <<INT_MAX, INT_MAX>> /\ scored.out.node.height = 0
           ELSE /\ \A i \in F :
                     ~pair_gt(got, FitScore(pack.free_rects[i], scored.width, scored.height))
                /\ \E i \in F :
                     /\ FitScore(pack.free_rects[i], scored.width, scored.height) = got
                     /\ scored.out.node = Rect(pack.free_rects[i].x, pack.free_rects[i].y,
                                               scored.width, scored.height)

C14_Witness ==
    /\ scored.called
    /\ Cardinality(Fits(pack, scored.width, scored.height)) >= 2
    /\ 1 \in Fits(pack, scored.width, scored.height)
    /\ FitScore(pack.free_rects[1], scored.width, scored.height)
           # <<scored.out.score1, scored.out.score2>>

\* insert of a request that fits no free rectangle returns a rect of height 0
\* and the bin as it was (insert is not called while a score call is under way).
C23_NoFit ==
    ~scored.called =>
      \A w \in 1..MaxDim, h \in 1..MaxDim :
        Fits(pack, w, h) = {} =>
            /\ insert(pack, w, h).ret.height = 0
            /\ insert(pack, w, h).bin = pack

\* A step in which insert returned height 0 on a bin that holds rectangles left
\* the bin as it was.
C23_Step ==
    (ret' # ret /\ ret'.height = 0 /\ Len(pack'.used_rects) >= 1) => pack' = pack

\* C23: insert(width, height) on a page in which no free rectangle has width >=
\* width and height >= height returns a rectangle of height 0 and leaves the
\* free list and the used list unchanged.
C23_FailedInsertKeepsBin == [](C23_NoFit) /\ [][C23_Step]_vars

C23_Witness ==
    /\ ret.height = 0
    /\ Len(pack.used_rects) >= 2
    /\ Len(pack.free_rects) >= 1

\* C24: on every page state and for every (width, height), insert succeeds
\* exactly when score on that state returns scores other than INT_MAX, and the
\* rectangle insert commits to the used list and returns is the candidate score
\* returned; so scoring first and inserting next places at the scored position.
C24_InsertFollowsScore ==
    scored.called =>
        LET r == insert(pack, scored.width, scored.height)
            finite == scored.out.score1 # INT_MAX /\ scored.out.score2 # INT_MAX
        IN /\ (r.ret.height # 0) <=> finite
           /\ r.ret = scored.out.node
           /\ finite => r.bin.used_rects = Append(pack.used_rects, scored.out.node)
           /\ ~finite => r.bin = pack

C24_Witness ==
    /\ scored.called
    /\ Len(pack.used_rects) >= 2
    /\ scored.out.score1 # INT_MAX
    /\ scored.width # scored.height
    /\ insert(pack, scored.width, scored.height).bin.used_rects[3] = scored.out.node

\* A step that changes the bin without adding a used rectangle is an init: the
\* bin is then what bin_pack(width, height) constructs.
C26_Step ==
    (pack' # pack /\ Len(pack'.used_rects) <= Len(pack.used_rects)) =>
        \E w \in 1..MaxDim, h \in 1..MaxDim :
            pack' = [bin_width |-> w, bin_height |-> h,
                     used_rects |-> <<>>,
                     free_rects |-> <<Rect(0, 0, w, h)>>]

\* C26: after init(width, height) called in any state of a bin_pack the used
\* list is empty and the free list is exactly the single rectangle
\* (0, 0, width, height): the bin is a freshly constructed bin_pack(width, height).
C26_InitResets == [][C26_Step]_vars

\* The number of entries of a list whose width and height are w and h.
SizeCount(rs, w, h) ==
    Cardinality({i \in 1..Len(rs) : rs[i].width = w /\ rs[i].height = h})

\* What holds when the batch insert has returned: for every size, dst and rects
\* together hold as many entries of that size as the caller passed (so the
\* lengths add up to the number of requests and the entries of dst have the
\* sizes of distinct requests), and no request left in rects fits a free rectangle.
C27_Returned ==
    bat = "returned" =>
        /\ Len(dst) + Len(rects) = Len(given)
        /\ \A w \in 1..MaxBatchDim, h \in 1..MaxBatchDim :
              SizeCount(dst, w, h) + SizeCount(rects, w, h) = SizeCount(given, w, h)
        /\ \A i \in 1..Len(rects) : Fits(pack, rects[i].width, rects[i].height) = {}

C26_Witness ==
    /\ pack.used_rects = <<>>
    /\ pack.free_rects = <<Rect(0, 0, pack.bin_width, pack.bin_height)>>
    /\ ret.height > 0
    /\ ret.x + ret.width > pack.bin_width

----------------------------------------------------------------------------
(* Properties of the packing driver *)

\* Every sprite's padded size is at least 1 and at most the page size.
SizeOk ==
    \A j \in 1..Len(sprites) :
        LET q == padded(sprites[j], opts.padding)
        IN /\ 1 <= q.width /\ q.width <= opts.bin_width
           /\ 1 <= q.height /\ q.height <= opts.bin_height

\* Some sprite's padded size exceeds the page size.
Oversize ==
    \E j \in 1..Len(sprites) :
        LET q == padded(sprites[j], opts.padding)
        IN q.width > opts.bin_width \/ q.height > opts.bin_height

\* The entries of all pages' region maps.
RegionEntries ==
    UNION {{<<k, n>> : n \in DOMAIN regions[k]} : k \in 1..Len(regions)}

\* C4: when the driver finishes, every submitted sprite appears exactly once
\* across all pages' region maps (as many entries as sprites, and each sprite's
\* name on exactly one page), whatever names the sprite files have.
C4_Conservation ==
    pc = "done" =>
        /\ Cardinality(RegionEntries) = Len(sprites)
        /\ \A j \in 1..Len(sprites) :
              Cardinality({k \in 1..Len(regions) : sprites[j].name \in DOMAIN regions[k]}) = 1

\* C5: the region recorded for a sprite of raw size (w, h) has width w and
\* height h, for every padding p >= 0.
C5_RegionSize ==
    \A e \in 1..Len(log) :
        /\ log[e].place.width = sprites[log[e].rect].width
        /\ log[e].place.height = sprites[log[e].rect].height

\* C6: every recorded region lies inside its sprite's padded footprint of size
\* (w + 2p, h + 2p); the footprints of two sprites on one page do not overlap,
\* hence neither do two recorded regions of one page.
C6_Footprints ==
    /\ \A e \in 1..Len(log) :
          LET q == padded(sprites[log[e].rect], opts.padding)
          IN /\ log[e].node.width = q.width /\ log[e].node.height = q.height
             /\ contained_in(log[e].place, log[e].node)
    /\ \A e, g \in 1..Len(log) :
          (e # g /\ log[e].bin = log[g].bin) =>
              /\ ~Intersects(log[e].node, log[g].node)
              /\ ~Intersects(log[e].place, log[g].place)
    /\ \A k \in 1..Len(regions) : \A n \in DOMAIN regions[k] :
          \E e \in 1..Len(log) : log[e].bin = k /\ log[e].place = regions[k][n]

C6_Witness ==
    /\ opts.padding >= 1
    /\ \E e, g \in 1..Len(log) : e # g /\ log[e].bin = log[g].bin

\* Every sprite has been placed, each once.
AllPlaced ==
    /\ loop_i = Len(sprites)
    /\ Len(log) = Len(sprites)
    /\ {log[e].rect : e \in 1..Len(log)} = 1..Len(sprites)

\* One iteration places a pending sprite, or opens a page after which some
\* pending sprite fits an open page.
C7_Step ==
    (SizeOk /\ pc = "pack" /\ loop_i < Len(infos)) =>
        \/ /\ loop_i' = loop_i + 1
           /\ Len(log') = Len(log) + 1
           /\ Len(bins') = Len(bins)
           /\ infos[log'[Len(log')].rect].width # INT_MAX
        \/ /\ loop_i' = loop_i
           /\ Len(bins') = Len(bins) + 1
           /\ log' = log
           /\ scan(bins', infos').all_fit

\* C7: for sprites whose padded sizes are within 1..page size, the packing loop
\* terminates with every sprite placed, and each iteration either places one
\* pending sprite or opens one page that a pending sprite then fits.
C7_Terminates ==
    /\ SizeOk => <>(pc = "done" /\ AllPlaced)
    /\ [][C7_Step]_vars

C7_Witness ==
    /\ pc = "done" /\ SizeOk
    /\ Len(sprites) >= 2 /\ Len(bins) >= 2

\* C8: when a sprite's padded size exceeds the page size the driver fails
\* before any placement and before opening any page.
C8_FailFast ==
    Oversize => (Len(bins) = 0 /\ Len(log) = 0)

\* Pair a is lexicographically less than or equal to pair b.
LexLE(a, b) == a[1] < b[1] \/ (a[1] = b[1] /\ a[2] <= b[2])

\* The best (short leftover, long leftover) a width x height request has in bin
\* b, <<INT_MAX, INT_MAX>> when it fits no free rectangle.
BestFit(b, width, height) ==
    LET F == Fits(b, width, height)
    IN IF F = {} THEN <<INT_MAX, INT_MAX>>
       ELSE FitScore(b.free_rects[CHOOSE i \in F : \A k \in F :
                         LexLE(FitScore(b.free_rects[i], width, height),
                               FitScore(b.free_rects[k], width, height))], width, height)

\* The sprites not placed yet.
Pending == {j \in 1..Len(infos) : infos[j].width # INT_MAX}

\* A placement takes a pending sprite and a page whose score is the least of
\* all pairs of a pending sprite and an open page, and commits it to that page.
C15_Step ==
    Len(log') = Len(log) + 1 =>
        LET e == log'[Len(log')]
            got == BestFit(bins[e.bin], infos[e.rect].width, infos[e.rect].height)
        IN /\ e.rect \in Pending
           /\ got # <<INT_MAX, INT_MAX>>
           /\ \A j \in Pending : \A k \in 1..Len(bins) :
                 LexLE(got, BestFit(bins[k], infos[j].width, infos[j].height))
           /\ e.node.width = infos[e.rect].width /\ e.node.height = infos[e.rect].height
           /\ bins'[e.bin].used_rects = Append(bins[e.bin].used_rects, e.node)
           /\ \A k \in 1..Len(bins) : k # e.bin => bins'[k] = bins[k]
           /\ e.rect \notin {log[g].rect : g \in 1..Len(log)}

\* C15: at every placement the placed (sprite, page) pair has a score that is
\* lexicographically at most the score of every (pending sprite, open page) pair
\* of the state before, the sprite goes into exactly that page, and a sprite
\* already placed is never chosen again.
C15_GlobalBest == [][C15_Step]_vars

C15_Witness ==
    /\ Len(log) >= 2
    /\ log[1].rect = 2
    /\ sprites[1].width # sprites[2].width

\* Some pending sprite fits some open page.
SomeFit ==
    \E j \in Pending : \E k \in 1..Len(bins) :
        Fits(bins[k], infos[j].width, infos[j].height) # {}

\* An iteration opens a page exactly when no pending sprite fits an open page;
\* the page is appended, empty and of the configured size.
C16_Step ==
    (pc = "pack" /\ loop_i < Len(infos)) =>
        /\ (Len(bins') = Len(bins) + 1) <=> ~SomeFit
        /\ (Len(bins') = Len(bins)) <=> SomeFit
        /\ ~SomeFit =>
              /\ SubSeq(bins', 1, Len(bins)) = bins
              /\ bins'[Len(bins')] =
                    [bin_width |-> opts.bin_width, bin_height |-> opts.bin_height,
                     used_rects |-> <<>>,
                     free_rects |-> <<Rect(0, 0, opts.bin_width, opts.bin_height)>>]
              /\ regions' = Append(regions, <<>>)
              /\ log' = log /\ infos' = infos

\* C16: the driver opens a page in an iteration if and only if no pending
\* sprite fits any open page; the new page is empty and has the configured
\* width and height.
C16_OpensOnlyWhenNeeded == [][C16_Step]_vars

C16_Witness ==
    /\ Len(bins) = 2 /\ Len(log) = 1
    /\ bins[2].used_rects = <<>>
    /\ Len(bins[1].used_rects) = 1

\* C29: when the packing loop has ended on sprites whose padded sizes are
\* between 1 and the page size, every page opened holds at least one placed
\* rectangle and one region, there are at most as many pages as sprites, and
\* for no sprites there is no page.
C29_NoEmptyPage ==
    (pc = "done" /\ SizeOk) =>
        /\ Len(regions) = Len(bins)
        /\ \A k \in 1..Len(bins) :
              /\ Len(bins[k].used_rects) >= 1
              /\ DOMAIN regions[k] # {}
        /\ Len(bins) <= Len(sprites)
        /\ sprites = <<>> => bins = <<>>

\* The loop has ended on two sprites that took a page each.
C29_Witness ==
    /\ pc = "done" /\ SizeOk
    /\ Len(sprites) = 2 /\ Len(bins) = 2
    /\ Len(bins[2].used_rects) = 1

\* C17: for a single sprite whose padded size is at most the page size the
\* driver creates exactly one page and places the padded rectangle at (0, 0)
\* with its requested size; with padding 0 the recorded region is at (0, 0)
\* with the sprite's raw size.
C17_SingleSprite ==
    (Len(sprites) = 1 /\ SizeOk) =>
        /\ Len(bins) <= 1
        /\ pc = "done" => (Len(bins) = 1 /\ Len(log) = 1)
        /\ Len(log) = 1 =>
              /\ log[1].bin = 1
              /\ log[1].node = Rect(0, 0, sprites[1].width + 2 * opts.padding,
                                         sprites[1].height + 2 * opts.padding)
              /\ bins[1].used_rects = <<log[1].node>>
              /\ opts.padding = 0 =>
                    regions[1] = [n \in {sprites[1].name} |->
                                     Rect(0, 0, sprites[1].width, sprites[1].height)]

C17_Witness ==
    /\ Len(sprites) = 1 /\ SizeOk /\ pc = "done"
    /\ opts.padding = 0
    /\ sprites[1].width = MaxRaw

\* Two sprites that each fit the page, but not side by side and not one above
\* the other.
TwoTooBig ==
    /\ Len(sprites) = 2 /\ SizeOk
    /\ padded(sprites[1], opts.padding).width + padded(sprites[2], opts.padding).width
           > opts.bin_width
    /\ padded(sprites[1], opts.padding).height + padded(sprites[2], opts.padding).height
           > opts.bin_height

\* C18: two sprites that each fit the page alone, whose padded widths sum to
\* more than the page width and whose padded heights sum to more than the page
\* height, end on exactly two pages with exactly one sprite on each.
C18_TwoPages ==
    TwoTooBig =>
        /\ Len(bins) <= 2
        /\ \A k \in 1..Len(bins) : Len(bins[k].used_rects) <= 1
        /\ pc = "done" =>
              /\ Len(bins) = 2 /\ Len(regions) = 2 /\ Len(log) = 2
              /\ {log[1].rect, log[2].rect} = {1, 2}
              /\ {log[1].bin, log[2].bin} = {1, 2}
              /\ \A k \in 1..2 :
                    /\ Len(bins[k].used_rects) = 1
                    /\ Cardinality(DOMAIN regions[k]) = 1

C18_Witness ==
    /\ TwoTooBig /\ pc = "done"
    /\ Len(bins) = 2

\* No step removes a page, a used rectangle or a recorded region, or changes
\* one; a placement appends one rectangle to the chosen page's used list and
\* leaves every other page and its region map as they were.
C25_Step ==
    /\ Len(bins') >= Len(bins) /\ Len(regions') >= Len(regions)
    /\ \A k \in 1..Len(bins) :
          SubSeq(bins'[k].used_rects, 1, Len(bins[k].used_rects)) = bins[k].used_rects
    /\ \A k \in 1..Len(regions) : \A n \in DOMAIN regions[k] :
          n \in DOMAIN regions'[k] /\ regions'[k][n] = regions[k][n]
    /\ Len(log') = Len(log) + 1 =>
          LET e == log'[Len(log')]
          IN /\ Len(bins') = Len(bins)
             /\ bins'[e.bin].used_rects = Append(bins[e.bin].used_rects, e.node)
             /\ \A k \in 1..Len(bins) :
                   k # e.bin => (bins'[k] = bins[k] /\ regions'[k] = regions[k])

\* C25: each successful placement appends exactly one rectangle to the chosen
\* page's used list and changes none already in it, and leaves the free list,
\* the used list and the region map of every other page unchanged; no page is
\* removed and no recorded region is changed or removed.
C25_PagesOnlyGrow == [][C25_Step]_vars

C25_Witness ==
    /\ Len(log) >= 2 /\ Len(bins) >= 2
    /\ log[Len(log)].bin = 2
    /\ Len(bins[1].used_rects) >= 1
    /\ DOMAIN regions[1] # {} /\ DOMAIN regions[2] # {}

\* Some sprite's padded width or height is 0 or negative.
Degenerate ==
    \E j \in 1..Len(sprites) :
        LET q == padded(sprites[j], opts.padding)
        IN q.width <= 0 \/ q.height <= 0

\* C13: when a sprite's padded width or height is 0 or negative the request is
\* rejected before packing starts: no page is opened and nothing is placed.
C13_DegenerateRejected ==
    Degenerate => (Len(bins) = 0 /\ Len(log) = 0)

----------------------------------------------------------------------------
(* Properties of the atlas format *)

\* The regions handed to the writer, with their pages.
WrittenEntries ==
    UNION {{<<k, n, regions[k][n]>> : n \in DOMAIN regions[k]} : k \in 1..Len(regions)}

\* The regions the loaded atlas holds, with their pages.
LoadedEntries ==
    {<<atlas_regions[n].texture, n,
       Rect(atlas_regions[n].x, atlas_regions[n].y, atlas_regions[n].width, atlas_regions[n].height)>> :
         n \in DOMAIN atlas_regions}

\* C9: loading the atlas the packer wrote ends without an error and yields the
\* page count, page names, region names and region rectangles that were written.
C9_RoundTrip ==
    (pc = "written" /\ ld.pc \in {"done", "error"}) =>
        /\ ld.pc = "done"
        /\ textures = [k \in 1..Len(regions) |-> page_name(k - 1)]
        /\ LoadedEntries = WrittenEntries

\* C10: load on a stream whose version byte is not 1 fails before any page or
\* region record is read, and the atlas then holds no textures and no regions.
C10_VersionRejected ==
    (ld.pc # "idle" /\ stream[1] # 1) =>
        /\ ld.pc = "error"
        /\ ld.pos = 1
        /\ textures = <<>>
        /\ DOMAIN atlas_regions = {}

C10_Witness ==
    /\ ld.pc = "error" /\ stream[1] = 2
    /\ stream[2] >= 1

\* The packing result is beyond what the format's fields hold: more than 255
\* pages, more than 65535 regions on a page, or a region field above 65535.
CapsExceeded ==
    \/ Len(regions) > 2 * CHAR_MAX + 1
    \/ \E k \in 1..Len(regions) :
          \/ Cardinality(DOMAIN regions[k]) > 2 * SHRT_MAX + 1
          \/ \E n \in DOMAIN regions[k] :
                \/ regions[k][n].x > 2 * SHRT_MAX + 1 \/ regions[k][n].y > 2 * SHRT_MAX + 1
                \/ regions[k][n].width > 2 * SHRT_MAX + 1 \/ regions[k][n].height > 2 * SHRT_MAX + 1

\* C12: when the packing result exceeds the format's caps (255 pages, 65535
\* regions on a page, 65535 for a coordinate or size) serialization is rejected:
\* no atlas is written, in particular none whose fields hold the true values
\* modulo 2^8 or 2^16.
C12_CapsRejected ==
    CapsExceeded => stream = <<>>

\* C28: load of a written atlas of 0..255 pages makes exactly as many passes of
\* the page loop as the atlas has pages and, on each page, exactly as many
\* passes of the region loop as the page has regions, and then returns: char i
\* counts the pages loaded so far and never passes the page amount, short j
\* stays between 0 and the region amount, and load ends with every page loaded
\* and without an error.
C28_LoopCounts ==
    (pc = "written" /\ Len(regions) <= 2 * CHAR_MAX + 1) =>
        /\ ld.pc # "error"
        /\ ld.pc \in {"page", "region", "done"} => ld.page_size = Len(regions)
        /\ ld.pc = "page" => ld.i = Len(textures) /\ ld.i <= ld.page_size
        /\ ld.pc = "region" =>
              /\ ld.i = Len(textures) - 1 /\ ld.i < ld.page_size
              /\ ld.region_size = Cardinality(DOMAIN regions[Len(textures)])
              /\ 0 <= ld.j /\ ld.j <= ld.region_size
        /\ ld.pc = "done" => Len(textures) = Len(regions)

\* The number of entries of a list of functions that are f.
Occurs(fs, f) == Cardinality({i \in 1..Len(fs) : fs[i] = f})

\* The functions of thread t's batch that it has not invoked yet.
Waiting(t) == SubSeq(threads[t].runs, threads[t].idx + 1, Len(threads[t].runs))

\* The number of places that hold f for a later invocation: the argument of a
\* submit call before its push_back, the queue (not counted while a run call
\* is between taking runs and queue.clear(), when runs already holds it), the
\* part of a batch not yet invoked.
Held(f) ==
    Cardinality({t \in Threads : threads[t].function = f
                                  /\ threads[t].pc \in {"submit_lock", "submit_push"}})
    + (IF \E t \in Threads : threads[t].pc = "run_clear" THEN 0 ELSE Occurs(queue, f))
    + Cardinality({<<t, i>> \in Threads \X (1..MaxFuncs) :
                      i <= Len(Waiting(t)) /\ Waiting(t)[i] = f})

\* Every function submitted is either held in exactly one place and not yet
\* invoked, or held nowhere and invoked exactly once; a function submitted
\* from inside a running function was not invoked by the run call that was
\* running that function.
C30_Inv ==
    \A f \in 1..Len(invoked) :
        /\ Held(f) + Len(invoked[f].by) = 1
        /\ (invoked[f].from # 0 /\ invoked[f].by # <<>>) =>
              /\ invoked[invoked[f].from].by # <<>>
              /\ invoked[f].by[1] # invoked[invoked[f].from].by[1]

\* A run call takes the whole queue as its batch, and the batch then stays as
\* taken until the call returns: nothing submitted meanwhile joins it. A
\* function is invoked only by a run call that holds it in its batch.
C30_Step ==
    /\ \A t \in Threads :
          threads'[t].runs # threads[t].runs =>
              \/ threads[t].runs = <<>> /\ threads[t].pc = "run_check" /\ threads'[t].runs = queue
              \/ threads'[t].runs = <<>> /\ threads'[t].pc = "idle" /\ Waiting(t) = <<>>
    /\ \A t \in Threads :
          (threads[t].pc = "run_unlock" /\ threads'[t].pc = "run_loop") => queue = <<>>
    /\ \A f \in 1..Len(invoked) :
          invoked'[f].by # invoked[f].by =>
              \E t \in Threads :
                 /\ Waiting(t) # <<>> /\ Waiting(t)[1] = f
                 /\ invoked'[f].by = Append(invoked[f].by, <<t, run_count[t]>>)

C11_ShortStreamFails ==
    pc = "truncated" => ld.pc # "done"

====
